---- MODULE Spec2Model ----
(***************************************************************************)
(* Tiny Tapeout precheck (src/precheck/precheck.py): the pipeline of       *)
(* main() and the checks it runs, as state machines.                       *)
(*                                                                         *)
(*   Spec          main(): argument parsing, info.yaml lookup, project     *)
(*                 configuration, the check loop, the two reports, exit.   *)
(*   SpecRerun     main() run twice on the same, unchanged inputs.         *)
(*   SpecAnalog    analog_pin_check on bounded inputs.                     *)
(*   SpecPower     power_pin_check on bounded inputs.                      *)
(*   SpecBoundary  boundary_check on bounded inputs.                       *)
(*   SpecDrc       magic_drc and klayout_drc on bounded engine results.    *)
(*   SpecLayer     layer_check on bounded inputs.                          *)
(*   SpecKlayout   klayout_checks on bounded inputs.                       *)
(*   SpecLive      main() with the fairness of a running process.          *)
(*                                                                         *)
(* A diagnostic (str(e)) is a tuple of its parts; <<>> is "no exception".  *)
(* Elapsed times are not modelled: they are read from the wall clock and   *)
(* nothing in the program depends on them.                                 *)
(***************************************************************************)
EXTENDS Integers, Sequences, FiniteSets, TLC

VARIABLES
    inp,            \* the run's inputs: command line, file system, info.yaml, layout
    run,            \* 1 for the first run of main(), 2 for a re-run on the same inputs
    prev,           \* the testsuite of the first run, kept for comparison on a re-run
    pc,             \* the position of main()
    gds_temp,       \* main's gds_temp: None, or the name of the temporary file
    gds_file,       \* main's gds_file
    tmp_files,      \* the temporary files that exist on disk
    yaml_dir,       \* main's yaml_dir, a directory on the path to args.gds
    idx,            \* the position of the loop over checks (1-based)
    testsuite,      \* the <testcase> elements under testsuite, in order
    markdown_table, \* the rows appended to markdown_table, in order
    error_count,    \* main's error_count
    results_xml,    \* every content written to reports/results.xml, in order
    results_md,     \* every content written to reports/results.md, in order
    exit_code,      \* the process exit status; -1 while running
    fatal,          \* the message of the exception that left main(), or <<>>
    ain,            \* analog_pin_check: its arguments and the layout's probe hits
    aresult,        \* analog_pin_check: <<"idle">>, <<>> (returned) or the diagnostic raised
    pin_,           \* power_pin_check: its arguments and the two files
    presult,        \* power_pin_check: <<"idle">>, <<>> or the diagnostic raised
    bin,            \* boundary_check: the layout read from gds
    bresult,        \* boundary_check: <<"idle">>, <<>> or the diagnostic raised
    din,            \* magic_drc / klayout_drc: the engine, its run and the report file
    dpc,            \* magic_drc / klayout_drc: the position in the function
    dresult,        \* magic_drc / klayout_drc: <<"idle">>, <<>> or the diagnostic raised
    report_loaded,  \* klayout_drc: report.load(report_file) has been called
    lin,            \* layer_check: the pairs of the layout and the technology
    lresult,        \* layer_check: <<"idle">>, <<>> or the diagnostic raised
    kin,            \* klayout_checks: its arguments and the layout read from gds
    kresult         \* klayout_checks: <<"idle">>, <<>> or the diagnostic raised

mainVars == <<inp, run, prev, pc, gds_temp, gds_file, tmp_files, yaml_dir, idx,
              testsuite, markdown_table, error_count, results_xml, results_md,
              exit_code, fatal>>
analogVars == <<ain, aresult>>
powerVars == <<pin_, presult>>
boundaryVars == <<bin, bresult>>
drcVars == <<din, dpc, dresult, report_loaded>>
layerVars == <<lin, lresult>>
klayoutVars == <<kin, kresult>>
engineVars == <<drcVars, layerVars, klayoutVars>>
vars == <<mainVars, analogVars, powerVars, boundaryVars, engineVars>>
notMain == <<analogVars, powerVars, boundaryVars, engineVars>>

None == "None"
PASS == <<>>
IDLE == <<"idle">>

Min(S) == CHOOSE x \in S : \A y \in S : x <= y
Max(S) == CHOOSE x \in S : \A y \in S : x >= y

----------------------------------------------------------------------------
(* Layouts.  A layout is [tops, top_name, shapes]: the number of top-level *)
(* cells, the name of the (first) top cell, and the polygons and paths     *)
(* reachable from it.  A shape is [layer, at, box]: its (layer, datatype)  *)
(* pair, whether it is the top cell's own ("top") or lies in a referenced  *)
(* sub-cell ("sub"), and its bounding box <<x1, y1, x2, y2>>.              *)

prBoundary == <<235, 4>>
met5_drawing == <<72, 20>>
met5_pin == <<72, 16>>
met5_label == <<72, 5>>
met1_drawing == <<68, 20>>

\* parse_lyp_layers(LYP_FILE): the PDK's layer names and their pairs.
layers(name) ==
    CASE name = "met5.drawing" -> met5_drawing
      [] name = "met5.pin" -> met5_pin
      [] name = "met5.label" -> met5_label
      [] name = "prBoundary.boundary" -> prBoundary

forbidden_layers == <<"met5.drawing", "met5.pin", "met5.label">>

\* layout.find_layer(layer, datatype) is not None
find_layer(layout, pair) == \E s \in layout.shapes : s.layer = pair

\* klayout_checks without its last test, the one of the boundary layer.
klayout_checks_NoBoundaryTest(gds, expected_name, layout) ==
    IF layout.tops # 1 THEN <<"Exception", "top_cell">>
    ELSE IF layout.top_name # expected_name
    THEN <<"Top macro name mismatch: expected", expected_name, "got", layout.top_name>>
    ELSE IF \E i \in 1..Len(forbidden_layers) : find_layer(layout, layers(forbidden_layers[i]))
    THEN LET i == Min({j \in 1..Len(forbidden_layers) :
                          find_layer(layout, layers(forbidden_layers[j]))})
         IN  <<"Forbidden layer", forbidden_layers[i], "found in", gds>>
    ELSE PASS

\* klayout_checks(gds, expected_name).  layout.top_cell() raises when the layout
\* has several top cells and returns None (so .name raises) when it has none.
klayout_checks(gds, expected_name, layout) ==
    IF layout.tops # 1 THEN <<"Exception", "top_cell">>
    ELSE IF layout.top_name # expected_name
    THEN <<"Top macro name mismatch: expected", expected_name, "got", layout.top_name>>
    ELSE IF \E i \in 1..Len(forbidden_layers) : find_layer(layout, layers(forbidden_layers[i]))
    THEN LET i == Min({j \in 1..Len(forbidden_layers) :
                          find_layer(layout, layers(forbidden_layers[j]))})
         IN  <<"Forbidden layer", forbidden_layers[i], "found in", gds>>
    ELSE IF ~find_layer(layout, layers("prBoundary.boundary"))
    THEN <<"prBoundary.boundary (235/4) layer not found in", gds>>
    ELSE PASS

\* Cell.bounding_box(): the box around the cell's polygons, paths and references;
\* None, written <<>>, for a cell that holds nothing.
bounding_box(shapes) ==
    IF shapes = {} THEN <<>>
    ELSE << Min({s.box[1] : s \in shapes}), Min({s.box[2] : s \in shapes}),
            Max({s.box[3] : s \in shapes}), Max({s.box[4] : s \in shapes}) >>

\* Cell.filter(spec, False): keeps, of the cell's own polygons and paths, those on
\* the pairs of spec.  The cell's references are not filtered: what they place
\* stays in the cell.
filter(shapes, spec) == {s \in shapes : s.at = "sub" \/ s.layer \in spec}

\* boundary_check without its test of the number of top-level cells.
boundary_check_NoTopTest(layout) ==
    IF bounding_box(layout.shapes) # bounding_box(filter(layout.shapes, {prBoundary}))
    THEN <<"Shapes outside project area">>
    ELSE PASS

\* boundary_check(gds)
boundary_check(layout) ==
    IF layout.tops # 1 THEN <<"GDS top level not unique">>
    ELSE IF bounding_box(layout.shapes) # bounding_box(filter(layout.shapes, {prBoundary}))
    THEN <<"Shapes outside project area">>
    ELSE PASS

----------------------------------------------------------------------------
(* main()                                                                  *)

\* The checks list of main(), by name, in declared order.
checks == << "Magic DRC", "KLayout FEOL", "KLayout BEOL", "KLayout offgrid",
             "KLayout pin label overlapping drawing", "KLayout zero area",
             "KLayout Checks", "Pin check", "Boundary check", "Power pin check",
             "Layer check", "Cell name check", "urpm/nwell check",
             "Analog pin check" >>

\* The checks computed here from the layout; the outcome of every other check
\* (an external engine, a file's content) is open: it returns, raises
\* PrecheckFailure, or raises another exception.
Computed == {"KLayout Checks", "Boundary check"}

\* At most MaxFailures of the open checks fail in a run.
MaxFailures == 3
\* The deepest directory of args.gds.
MaxDepth == 2
\* The names tempfile.NamedTemporaryFile may choose.
TempNames == {"/tmp/tmpA.gds", "/tmp/tmpB.gds"}

OpenFailures(ts) ==
    Cardinality({i \in 1..Len(ts) : ts[i].name \notin Computed /\ ts[i].error # PASS})

\* What the call check() of the loop does: <<>> for a return, else str(e).
\* On a re-run the open checks do what they did on the first run: the inputs
\* are the same.
Outcomes(name) ==
    IF name = "KLayout Checks"
    THEN {klayout_checks(gds_file, inp.top_module, inp.layout)}
    ELSE IF name = "Boundary check"
    THEN {boundary_check(inp.layout)}
    ELSE IF run > 1
    THEN {prev.testsuite[idx].error}
    ELSE {PASS} \cup
         (IF OpenFailures(testsuite) < MaxFailures
          THEN {<<"PrecheckFailure", name>>, <<"Exception", name>>}
          ELSE {})

\* os.path.dirname of a directory [abs, depth]: "/a/b" -> "/a" -> "/" -> "/",
\* and "a/b" -> "a" -> "" -> "".
dirname(d) == [d EXCEPT !.depth = IF d.depth > 0 THEN d.depth - 1 ELSE 0]

\* os.path.exists(f"{yaml_dir}/info.yaml"); for yaml_dir "" and "/" alike the
\* path names the file in the root directory.
yaml_exists(d) == d.depth \in inp.yaml_at

\* An exception leaves main(): the interpreter prints it and exits with 1.
Raise(msg) ==
    /\ pc' = "exited"
    /\ exit_code' = 1
    /\ fatal' = msg

\* main(), lines 254-270
ParseArgs ==
    /\ UNCHANGED notMain
    /\ pc = "parse"
    /\ \/ /\ inp.ext = "gds"
          /\ gds_temp' = None
          /\ gds_file' = "args.gds"
          /\ pc' = "find_yaml"
          /\ UNCHANGED <<tmp_files, exit_code, fatal>>
       \/ /\ inp.ext = "gds.br"
          /\ \E t \in TempNames \ tmp_files :
                /\ gds_temp' = t
                /\ gds_file' = t
                /\ tmp_files' = tmp_files \cup {t}
          /\ pc' = "find_yaml"
          /\ UNCHANGED <<exit_code, fatal>>
       \/ /\ inp.ext \notin {"gds", "gds.br"}
          /\ Raise(<<"Layout file extension is neither .gds nor .gds.br">>)
          /\ UNCHANGED <<gds_temp, gds_file, tmp_files>>
    /\ yaml_dir' = [abs |-> inp.abs, depth |-> inp.depth]
    /\ UNCHANGED <<inp, run, prev, idx, testsuite, markdown_table, error_count,
                   results_xml, results_md>>

\* main(), line 271: the while condition holds, the loop body is entered
FindInfoYaml ==
    /\ UNCHANGED notMain
    /\ pc = "find_yaml"
    /\ ~yaml_exists(yaml_dir)
    /\ pc' = "walk_up"
    /\ UNCHANGED <<inp, run, prev, gds_temp, gds_file, tmp_files, yaml_dir, idx,
                   testsuite, markdown_table, error_count, results_xml, results_md,
                   exit_code, fatal>>

\* main(), lines 272-274: the loop body
WalkUp ==
    /\ UNCHANGED notMain
    /\ pc = "walk_up"
    /\ yaml_dir' = dirname(yaml_dir)
    /\ IF yaml_dir'.abs /\ yaml_dir'.depth = 0
       THEN Raise(<<"info.yaml not found">>)
       ELSE pc' = "find_yaml" /\ UNCHANGED <<exit_code, fatal>>
    /\ UNCHANGED <<inp, run, prev, gds_temp, gds_file, tmp_files, idx, testsuite,
                   markdown_table, error_count, results_xml, results_md>>

\* main(), lines 275-301: the loop ends; info.yaml is read
LoadInfo ==
    /\ UNCHANGED notMain
    /\ pc = "find_yaml"
    /\ yaml_exists(yaml_dir)
    /\ IF inp.top_module # inp.stem
       THEN Raise(<<"AssertionError">>)
       ELSE IF inp.uses_3v3 /\ ~(inp.analog_pins > 0)
       THEN Raise(<<"Projects with 3v3 power need at least one analog pin">>)
       ELSE /\ pc' = "checks"
            /\ UNCHANGED <<exit_code, fatal>>
    /\ UNCHANGED <<inp, run, prev, gds_temp, gds_file, tmp_files, yaml_dir, idx,
                   testsuite, markdown_table, error_count, results_xml, results_md>>

\* The loop with the testcase made only once the check has returned.
RunCheck_NoRecordOnRaise ==
    /\ UNCHANGED notMain
    /\ pc = "checks"
    /\ idx <= Len(checks)
    /\ \E e \in Outcomes(checks[idx]) :
          IF e = PASS
          THEN /\ testsuite' = Append(testsuite, [name |-> checks[idx], error |-> e])
               /\ markdown_table' = Append(markdown_table,
                     [name |-> checks[idx], result |-> <<"ok">>])
               /\ error_count' = error_count
          ELSE /\ error_count' = error_count + 1
               /\ UNCHANGED <<testsuite, markdown_table>>
    /\ idx' = idx + 1
    /\ UNCHANGED <<inp, run, prev, pc, gds_temp, gds_file, tmp_files, yaml_dir,
                   results_xml, results_md, exit_code, fatal>>

\* The loop with "except PrecheckFailure" in place of "except Exception".
RunCheck_ExceptPrecheckFailure ==
    /\ UNCHANGED notMain
    /\ pc = "checks"
    /\ idx <= Len(checks)
    /\ \E e \in Outcomes(checks[idx]) :
          IF e # PASS /\ e[1] = "Exception"
          THEN /\ Raise(e)
               /\ UNCHANGED <<testsuite, markdown_table, error_count, idx>>
          ELSE /\ testsuite' = Append(testsuite, [name |-> checks[idx], error |-> e])
               /\ markdown_table' = Append(markdown_table,
                     [name |-> checks[idx],
                      result |-> IF e = PASS THEN <<"ok">> ELSE <<"Fail">> \o e])
               /\ error_count' = IF e = PASS THEN error_count ELSE error_count + 1
               /\ idx' = idx + 1
               /\ UNCHANGED <<pc, exit_code, fatal>>
    /\ UNCHANGED <<inp, run, prev, gds_temp, gds_file, tmp_files, yaml_dir,
                   results_xml, results_md>>

\* main(), lines 339-353: one turn of the loop over checks
RunCheck ==
    /\ UNCHANGED notMain
    /\ pc = "checks"
    /\ idx <= Len(checks)
    /\ \E e \in Outcomes(checks[idx]) :
          /\ testsuite' = Append(testsuite, [name |-> checks[idx], error |-> e])
          /\ markdown_table' = Append(markdown_table,
                [name |-> checks[idx],
                 result |-> IF e = PASS THEN <<"ok">> ELSE <<"Fail">> \o e])
          /\ error_count' = IF e = PASS THEN error_count ELSE error_count + 1
    /\ idx' = idx + 1
    /\ UNCHANGED <<inp, run, prev, pc, gds_temp, gds_file, tmp_files, yaml_dir,
                   results_xml, results_md, exit_code, fatal>>

\* results.xml written from inside the loop, after the first check.
WriteXml_InsideLoop ==
    /\ UNCHANGED notMain
    /\ pc = "checks"
    /\ idx > 1
    /\ results_xml' = Append(results_xml, testsuite)
    /\ pc' = "write_md"
    /\ UNCHANGED <<inp, run, prev, gds_temp, gds_file, tmp_files, yaml_dir, idx,
                   testsuite, markdown_table, error_count, results_md, exit_code, fatal>>

\* main(), lines 354-361
WriteXml ==
    /\ UNCHANGED notMain
    /\ pc = "checks"
    /\ idx > Len(checks)
    /\ results_xml' = Append(results_xml, testsuite)
    /\ pc' = "write_md"
    /\ UNCHANGED <<inp, run, prev, gds_temp, gds_file, tmp_files, yaml_dir, idx,
                   testsuite, markdown_table, error_count, results_md, exit_code, fatal>>

\* main(), lines 363-364
WriteMd ==
    /\ UNCHANGED notMain
    /\ pc = "write_md"
    /\ results_md' = Append(results_md, markdown_table)
    /\ pc' = "cleanup"
    /\ UNCHANGED <<inp, run, prev, gds_temp, gds_file, tmp_files, yaml_dir, idx,
                   testsuite, markdown_table, error_count, results_xml, exit_code, fatal>>

\* main(), lines 366-368
Cleanup ==
    /\ UNCHANGED notMain
    /\ pc = "cleanup"
    /\ tmp_files' = IF gds_temp # None THEN tmp_files \ {gds_temp} ELSE tmp_files
    /\ pc' = "finish"
    /\ UNCHANGED <<inp, run, prev, gds_temp, gds_file, yaml_dir, idx, testsuite,
                   markdown_table, error_count, results_xml, results_md, exit_code, fatal>>

\* The end of main() without its exit(1).
Finish_NoExit1 ==
    /\ UNCHANGED notMain
    /\ pc = "finish"
    /\ exit_code' = 0
    /\ pc' = "exited"
    /\ UNCHANGED <<inp, run, prev, gds_temp, gds_file, tmp_files, yaml_dir, idx,
                   testsuite, markdown_table, error_count, results_xml, results_md, fatal>>

\* main(), lines 370-376
Finish ==
    /\ UNCHANGED notMain
    /\ pc = "finish"
    /\ exit_code' = IF error_count > 0 THEN 1 ELSE 0
    /\ pc' = "exited"
    /\ UNCHANGED <<inp, run, prev, gds_temp, gds_file, tmp_files, yaml_dir, idx,
                   testsuite, markdown_table, error_count, results_xml, results_md, fatal>>

\* The precheck is started again on the same inputs: the process state is new,
\* the file system (reports, temporary files) is what the first run left.
Rerun ==
    /\ UNCHANGED notMain
    /\ pc = "exited"
    /\ run = 1
    /\ run' = 2
    /\ prev' = [testsuite |-> testsuite, exit_code |-> exit_code, fatal |-> fatal]
    /\ pc' = "parse"
    /\ gds_temp' = None
    /\ gds_file' = None
    /\ yaml_dir' = [abs |-> inp.abs, depth |-> inp.depth]
    /\ idx' = 1
    /\ testsuite' = <<>>
    /\ markdown_table' = <<>>
    /\ error_count' = 0
    /\ exit_code' = -1
    /\ fatal' = <<>>
    /\ UNCHANGED <<inp, tmp_files, results_xml, results_md>>

----------------------------------------------------------------------------
(* The inputs of main()                                                    *)

Shape(layer, at, box) == [layer |-> layer, at |-> at, box |-> box]

\* A layout that passes: the boundary rectangle and one wire inside it.
GoodLayout ==
    [tops |-> 1, top_name |-> "tt_um_x",
     shapes |-> {Shape(prBoundary, "top", <<0, 0, 2, 2>>),
                 Shape(met1_drawing, "top", <<0, 0, 1, 1>>)}]

MainLayouts ==
    { GoodLayout,
      [tops |-> 0, top_name |-> "", shapes |-> {}],
      [GoodLayout EXCEPT !.tops = 2],
      [GoodLayout EXCEPT !.top_name = "tt_um_y"],
      [GoodLayout EXCEPT !.shapes = @ \cup {Shape(met5_pin, "top", <<0, 0, 1, 1>>)}],
      [GoodLayout EXCEPT !.shapes = {Shape(met1_drawing, "top", <<0, 0, 1, 1>>)}],
      [GoodLayout EXCEPT !.shapes = @ \cup {Shape(met1_drawing, "top", <<0, 0, 3, 1>>)}] }

BaseInput ==
    [ext |-> "gds", abs |-> TRUE, depth |-> 2, yaml_at |-> {1},
     stem |-> "tt_um_x", top_module |-> "tt_um_x",
     analog_pins |-> 0, uses_3v3 |-> FALSE, layout |-> GoodLayout]

\* One part of the input varies at a time around BaseInput.
MainInputs ==
    {[BaseInput EXCEPT !.ext = e] : e \in {"gds", "gds.br", "def"}}
    \cup {[BaseInput EXCEPT !.abs = a, !.depth = d, !.yaml_at = y] :
            a \in BOOLEAN, d \in 0..MaxDepth,
            y \in {{}} \cup {{k} : k \in 0..MaxDepth}}
    \cup {[BaseInput EXCEPT !.top_module = "tt_um_y"]}
    \cup {[BaseInput EXCEPT !.analog_pins = n, !.uses_3v3 = u] :
            n \in 0..1, u \in BOOLEAN}
    \cup {[BaseInput EXCEPT !.layout = l] : l \in MainLayouts}
    \cup {[BaseInput EXCEPT !.ext = "gds.br", !.yaml_at = {}],
          [BaseInput EXCEPT !.ext = "gds.br", !.top_module = "tt_um_y"],
          [BaseInput EXCEPT !.ext = "gds.br", !.uses_3v3 = TRUE]}

\* The inputs of the re-run: a plain or a compressed layout, each layout.
RerunInputs ==
    {[BaseInput EXCEPT !.ext = e, !.layout = l] :
        e \in {"gds", "gds.br"}, l \in MainLayouts}

StartMain ==
    /\ run = 1
    /\ prev = [testsuite |-> <<>>, exit_code |-> -1, fatal |-> <<>>]
    /\ pc = "parse"
    /\ gds_temp = None
    /\ gds_file = None
    /\ tmp_files = {}
    /\ yaml_dir = [abs |-> inp.abs, depth |-> inp.depth]
    /\ idx = 1
    /\ testsuite = <<>>
    /\ markdown_table = <<>>
    /\ error_count = 0
    /\ results_xml = <<>>
    /\ results_md = <<>>
    /\ exit_code = -1
    /\ fatal = <<>>

NoAnalog == ain = <<>> /\ aresult = IDLE
NoPower == pin_ = <<>> /\ presult = IDLE
NoBoundary == bin = <<>> /\ bresult = IDLE
NoDrc == din = <<>> /\ dpc = "idle" /\ dresult = IDLE /\ report_loaded = FALSE
NoLayer == lin = <<>> /\ lresult = IDLE
NoKlayout == kin = <<>> /\ kresult = IDLE
NoEngine == NoDrc /\ NoLayer /\ NoKlayout

Init ==
    /\ inp \in MainInputs
    /\ StartMain
    /\ NoAnalog /\ NoPower /\ NoBoundary /\ NoEngine

Next ==
    \/ ParseArgs
    \/ FindInfoYaml
    \/ WalkUp
    \/ LoadInfo
    \/ RunCheck
    \/ WriteXml
    \/ WriteMd
    \/ Cleanup
    \/ Finish

Spec == Init /\ [][Next]_vars

InitRerun ==
    /\ inp \in RerunInputs
    /\ StartMain
    /\ NoAnalog /\ NoPower /\ NoBoundary /\ NoEngine

NextRerun == Next \/ Rerun

SpecRerun == InitRerun /\ [][NextRerun]_vars

----------------------------------------------------------------------------
(* Properties of main()                                                    *)

Names(records) == [i \in 1..Len(records) |-> records[i].name]
IsFail(record) == record.error # PASS
Failed(ts) == {i \in 1..Len(ts) : IsFail(ts[i])}
\* main() ran to its end: no exception left it.
Completed == pc = "exited" /\ fatal = <<>>
\* main() was left by an exception raised before the loop over checks.
Aborted == pc = "exited" /\ fatal # <<>>
PositionOf(name) == CHOOSE i \in 1..Len(checks) : checks[i] = name

\* C1: in a run that reaches the checks, the records made so far are those of
\* the first checks of the list, one each and in the list's order, whatever
\* each check did; what is written to results.xml and to results.md holds
\* exactly one record per entry of checks, in the order of the list; and a
\* run that reaches the checks and ends has written both.
C1_OneRecordPerCheck ==
    /\ Len(testsuite) = idx - 1
    /\ Names(testsuite) = SubSeq(checks, 1, idx - 1)
    /\ Names(markdown_table) = SubSeq(checks, 1, idx - 1)
    /\ \A i \in 1..Len(results_xml) : Names(results_xml[i]) = checks
    /\ \A i \in 1..Len(results_md) : Names(results_md[i]) = checks
    /\ Completed => results_xml # <<>> /\ results_md # <<>>

\* C1 witness: a finished run whose report holds a check that raised
\* PrecheckFailure, one that raised another exception and one that returned.
C1_Witness ==
    /\ Completed
    /\ results_xml # <<>>
    /\ \E i, j, k \in 1..Len(testsuite) :
          /\ IsFail(testsuite[i]) /\ testsuite[i].error[1] = "PrecheckFailure"
          /\ IsFail(testsuite[j]) /\ testsuite[j].error[1] = "Exception"
          /\ ~IsFail(testsuite[k])

\* C2: a turn of the loop over checks records the check it ran and leaves the
\* loop running, also when the check raised (PrecheckFailure or any other
\* exception): the failure is recorded with its diagnostic, in the testcase and
\* in the markdown row, and counted; no exception of a check leaves main(), so
\* a run that recorded a check ends with a record for every check.
C2_Isolation ==
    /\ [](\A i \in Failed(testsuite) :
             markdown_table[i].result = <<"Fail">> \o testsuite[i].error)
    /\ [](testsuite # <<>> => fatal = <<>>)
    /\ [](pc = "exited" /\ testsuite # <<>> => Len(testsuite) = Len(checks))
    /\ [][pc = "checks" /\ idx <= Len(checks) =>
            /\ pc' = "checks"
            /\ idx' = idx + 1
            /\ Len(testsuite') = idx
            /\ SubSeq(testsuite', 1, idx - 1) = testsuite
            /\ testsuite'[idx].name = checks[idx]
            /\ IsFail(testsuite'[idx]) <=> error_count' = error_count + 1]_vars

\* C2 witness: a finished run in which a check raised an exception that is not
\* a PrecheckFailure and a later check was run and returned.
C2_Witness ==
    /\ Completed
    /\ \E i, j \in 1..Len(testsuite) :
          /\ i < j
          /\ IsFail(testsuite[i]) /\ testsuite[i].error[1] = "Exception"
          /\ ~IsFail(testsuite[j])

\* C3 as stated: the exit status is non-zero if and only if at least one
\* CheckResult has status fail.
C3_ExitNonZeroIffSomeFail ==
    pc = "exited" => (exit_code # 0 <=> Failed(testsuite) # {})

\* C3 amended: error_count is the number of fail records made so far; a run
\* that reaches the checks exits with 1 if some record is a fail and with 0 if
\* none is; a run left by an exception before the checks exits with 1 and has
\* no record.
C3_ExitStatus ==
    /\ error_count = Cardinality(Failed(testsuite))
    /\ Completed => exit_code = (IF Failed(testsuite) # {} THEN 1 ELSE 0)
    /\ Aborted => exit_code = 1 /\ testsuite = <<>>
    /\ pc # "exited" => exit_code = -1

\* C3 witness: a finished run with exactly one failed check, which exits with 1.
C3_Witness ==
    Completed /\ Cardinality(Failed(testsuite)) = 1 /\ exit_code = 1

\* C4 as stated: every run that ends, a precondition failure included, has
\* written results.xml and results.md, each exactly once.
C4_EveryRunWritesReports ==
    pc = "exited" => Len(results_xml) = 1 /\ Len(results_md) = 1

\* C4 amended: results.xml and results.md are each written at most once, only
\* after the last check was recorded and with the records of all checks; a run
\* that reaches the checks and ends has written both; a run left by an
\* exception before the checks has run no check and written neither.
C4_ReportsWritten ==
    /\ Len(results_xml) <= 1 /\ Len(results_md) <= 1
    /\ results_xml # <<>> =>
          idx = Len(checks) + 1 /\ results_xml[1] = testsuite
    /\ results_md # <<>> =>
          /\ idx = Len(checks) + 1
          /\ results_md[1] = markdown_table
          /\ results_xml # <<>>
    /\ Completed => Len(results_xml) = 1 /\ Len(results_md) = 1
    /\ Aborted => results_xml = <<>> /\ results_md = <<>> /\ testsuite = <<>>

\* C4 witness: a finished run with a failed check and both reports written.
C4_Witness ==
    Completed /\ error_count > 0 /\ Len(results_xml) = 1 /\ Len(results_md) = 1

C6_RerunSameResults ==
    run = 2 /\ pc = "exited" => testsuite = prev.testsuite

----------------------------------------------------------------------------
(* analog_pin_check                                                        *)
(*                                                                         *)
(* The flattened layout is the set of its hits: a hit [layer, pin, region] *)
(* is material of that layer inside one of the five probe rectangles that  *)
(* analog_pin_pos places at that pin ("over" the pin, "above", "below",    *)
(* "left", "right" of it).  pinout is the set of pins p whose pinout entry *)
(* ua[p] is truthy.                                                        *)

\* range(8)
NumPins == 8
\* The most hits of a layout.
MaxHits == 2

Regions == {"over", "above", "below", "left", "right"}
\* The pins that the bounded inputs hit or map.
InputPins == {0, 1, 2}
Hits == [layer : {"met4", "via3"}, pin : InputPins, region : Regions]

RECURSIVE SubsetsUpTo(_, _)
\* The subsets of S of at most n elements.
SubsetsUpTo(S, n) ==
    IF n = 0 THEN {{}}
    ELSE LET smaller == SubsetsUpTo(S, n - 1)
         IN  smaller \cup {T \cup {x} : T \in smaller, x \in S}

\* gdstk.boolean(polygons, rectangle, "and") for the rectangle of pin and region
boolean(polygons, pin, region) == {h \in polygons : h.pin = pin /\ h.region = region}

\* connected, without the probe to the right of the pin.
connected_NoRight(hits, pin) ==
    LET met4 == {h \in hits : h.layer = "met4"}
        via3 == {h \in hits : h.layer = "via3"}
    IN  \/ boolean(via3, pin, "over") # {}
        \/ boolean(met4, pin, "above") # {}
        \/ boolean(met4, pin, "below") # {}
        \/ boolean(met4, pin, "left") # {}

\* analog_pin_check, lines 197-225: connected for one pin
connected(hits, pin) ==
    LET met4 == {h \in hits : h.layer = "met4"}
        via3 == {h \in hits : h.layer = "via3"}
        via3_over == boolean(via3, pin, "over")
        met4_above == boolean(met4, pin, "above")
        met4_below == boolean(met4, pin, "below")
        met4_left == boolean(met4, pin, "left")
        met4_right == boolean(met4, pin, "right")
    IN  \/ via3_over # {}
        \/ met4_above # {}
        \/ met4_below # {}
        \/ met4_left # {}
        \/ met4_right # {}

\* pin_failure with the test of the pinout before the test of analog_pins.
pin_failure_PinoutFirst(pin, conn, expected_pc, expected_pd, analog_pins) ==
    IF conn /\ ~expected_pd
    THEN <<"Analog pin", pin, "connected but pinout.ua[pin] is falsy">>
    ELSE IF conn /\ ~expected_pc
    THEN <<"Analog pin", pin, "connected but analog_pins is", analog_pins>>
    ELSE IF ~conn /\ expected_pc
    THEN <<"Analog pin", pin, "not connected but analog_pins is", analog_pins>>
    ELSE IF ~conn /\ expected_pd
    THEN <<"Analog pin", pin, "not connected but pinout.ua[pin] is truthy">>
    ELSE PASS

\* analog_pin_check, lines 229-244: the exception one pin raises, or <<>>
pin_failure(pin, conn, expected_pc, expected_pd, analog_pins) ==
    IF conn /\ ~expected_pc
    THEN <<"Analog pin", pin, "connected but analog_pins is", analog_pins>>
    ELSE IF conn /\ ~expected_pd
    THEN <<"Analog pin", pin, "connected but pinout.ua[pin] is falsy">>
    ELSE IF ~conn /\ expected_pc
    THEN <<"Analog pin", pin, "not connected but analog_pins is", analog_pins>>
    ELSE IF ~conn /\ expected_pd
    THEN <<"Analog pin", pin, "not connected but pinout.ua[pin] is truthy">>
    ELSE PASS

RECURSIVE pin_loop(_, _)
\* analog_pin_check, lines 204-244: the loop from pin on
pin_loop(a, pin) ==
    IF pin >= NumPins THEN PASS
    ELSE LET e == pin_failure(pin, connected(a.hits, pin), pin < a.analog_pins,
                              pin \in a.pinout, a.analog_pins)
         IN  IF e # PASS THEN e ELSE pin_loop(a, pin + 1)

\* analog_pin_check(gds, tech, is_analog, uses_3v3, analog_pins, pinout)
analog_pin_check(a) == IF a.is_analog THEN pin_loop(a, 0) ELSE PASS

\* The bounded inputs; main() passes is_analog = analog_pins > 0 (line 285).
InitAnalog ==
    /\ ain \in {[is_analog |-> n > 0, analog_pins |-> n, pinout |-> po, hits |-> h] :
                   n \in 0..(Cardinality(InputPins)), po \in SUBSET InputPins,
                   h \in SubsetsUpTo(Hits, MaxHits)}
    /\ aresult = IDLE
    /\ inp = BaseInput /\ StartMain
    /\ NoPower /\ NoBoundary /\ NoEngine

RunAnalogPinCheck ==
    /\ aresult = IDLE
    /\ aresult' = analog_pin_check(ain)
    /\ UNCHANGED <<ain, mainVars, powerVars, boundaryVars, engineVars>>

NextAnalog == RunAnalogPinCheck

SpecAnalog == InitAnalog /\ [][NextAnalog]_vars

\* A pin's connectivity as the claims state it: some probe intersection is not
\* empty (via3 over the pin; met4 above, below, left or right of it).
Conn(p) ==
    \E h \in ain.hits :
        /\ h.pin = p
        /\ \/ h.layer = "via3" /\ h.region = "over"
           \/ h.layer = "met4" /\ h.region \in {"above", "below", "left", "right"}
ByCount(p) == p < ain.analog_pins
ByPinout(p) == p \in ain.pinout
Disagreeing == {p \in 0..(NumPins - 1) : ~(Conn(p) = ByCount(p) /\ Conn(p) = ByPinout(p))}
AnalogFailed == aresult # IDLE /\ aresult # PASS

\* C7: analog_pin_check returns if and only if analog_pins is 0 or, for every
\* pin p of 0..7, connected(p), p < analog_pins and "pinout maps ua[p] to a
\* truthy value" are the same boolean; otherwise it raises.
C7_PassIffAllAgree ==
    aresult # IDLE =>
        (aresult = PASS <=> (ain.analog_pins = 0 \/ Disagreeing = {}))

\* C7 witness: the check returned for a project with two analog pins, both
\* connected and both mapped.
C7_Witness ==
    /\ aresult = PASS
    /\ ain.analog_pins = 2
    /\ ain.pinout = {0, 1}
    /\ Conn(0) /\ Conn(1)

\* C8 as stated: the diagnostic names the lowest pin at which connectivity and
\* an expectation disagree, and each of the four cases has a diagnostic of its
\* own: "connected but analog_pins is N" is the diagnostic of
\* connected-but-count-says-no (the claim's example), so a pin that is
\* connected while neither expectation holds gets another one.
C8_FourCasesFourDiagnostics ==
    AnalogFailed =>
        LET p == aresult[2] IN
        /\ p = Min(Disagreeing)
        /\ Conn(p) /\ ~ByCount(p) /\ ByPinout(p) =>
              aresult[3] = "connected but analog_pins is"
        /\ Conn(p) /\ ~ByCount(p) /\ ~ByPinout(p) =>
              aresult[3] # "connected but analog_pins is"

\* C8 amended: the diagnostic names the lowest pin p at which connectivity and
\* an expectation disagree, and it is the one of the first branch that matches
\* at p: connected and p >= analog_pins (whether or not the pinout expects the
\* pin); connected, p < analog_pins and pinout falsy; not connected and
\* p < analog_pins (whether or not the pinout expects the pin); not connected,
\* p >= analog_pins and pinout truthy.
C8_FirstBranchAtLowestPin ==
    AnalogFailed =>
        LET p == Min(Disagreeing)
            n == ain.analog_pins
        IN  /\ Disagreeing # {}
            /\ aresult =
                 CASE Conn(p) /\ ~ByCount(p) ->
                        <<"Analog pin", p, "connected but analog_pins is", n>>
                   [] Conn(p) /\ ByCount(p) ->
                        <<"Analog pin", p, "connected but pinout.ua[pin] is falsy">>
                   [] ~Conn(p) /\ ByCount(p) ->
                        <<"Analog pin", p, "not connected but analog_pins is", n>>
                   [] ~Conn(p) /\ ~ByCount(p) ->
                        <<"Analog pin", p, "not connected but pinout.ua[pin] is truthy">>

\* C8 witness: pins 0 and 1 connected and mapped, analog_pins declared as 1: the
\* check fails on pin 1 with "connected but analog_pins is 1".
C8_Witness ==
    /\ ain.analog_pins = 1
    /\ ain.pinout = {0, 1}
    /\ Conn(0) /\ Conn(1)
    /\ aresult = <<"Analog pin", 1, "connected but analog_pins is", 1>>

----------------------------------------------------------------------------
(* power_pin_check                                                         *)
(*                                                                         *)
(* A file is the sequence of its tokens: the supply net names, the comment *)
(* marks "//", "/*" and "*/", and the line end "\n".                       *)

\* The most segments of a file of the bounded inputs.
MaxSegments == 3

NL == "\n"
Segments ==
    { <<"VGND">>, <<"VPWR">>, <<"VAPWR">>, <<"VGND", "VPWR">>,
      <<"//", "VAPWR", NL>>,
      <<"/*", "VAPWR", "*/">>, <<"/*", NL, "VPWR", "*/">>,
      <<"/*">>, <<"//">>, <<"*/">> }

RECURSIVE FilesUpTo(_)
\* The files made of at most n segments.
FilesUpTo(n) ==
    IF n = 0 THEN {<<>>}
    ELSE LET shorter == FilesUpTo(n - 1)
         IN  shorter \cup {f \o s : f \in shorter, s \in Segments}

PlainFiles == { <<"VGND", "VDPWR">>, <<"VGND", "VPWR", "VAPWR">> }

\* str.replace("VPWR", "VDPWR")
replace(s) == [i \in 1..Len(s) |-> IF s[i] = "VPWR" THEN "VDPWR" ELSE s[i]]

RECURSIVE sub_line(_, _)
\* re.sub("//.*", "", s): "." stops at the line end, which stays.
sub_line(s, in_comment) ==
    IF s = <<>> THEN <<>>
    ELSE IF Head(s) = NL THEN <<NL>> \o sub_line(Tail(s), FALSE)
    ELSE IF in_comment \/ Head(s) = "//" THEN sub_line(Tail(s), TRUE)
    ELSE <<Head(s)>> \o sub_line(Tail(s), FALSE)

RECURSIVE sub_block_NonGreedy(_)
\* The substitution with the pattern "/\*.*?\*/": each comment ends at the
\* first "*/" after its "/*".
sub_block_NonGreedy(s) ==
    LET opens == {i \in 1..Len(s) : s[i] = "/*"}
    IN  IF opens = {} THEN s
        ELSE LET first == Min(opens)
                 closes == {i \in (first + 1)..Len(s) : s[i] = "*/"}
             IN  IF closes = {} THEN s
                 ELSE SubSeq(s, 1, first - 1)
                      \o sub_block_NonGreedy(SubSeq(s, Min(closes) + 1, Len(s)))

\* re.sub("/\\*.*\\*/", "", s, flags=DOTALL | MULTILINE): ".*" is greedy and
\* crosses line ends, so the one match runs from the first "/*" to the last "*/".
sub_block(s) ==
    LET opens == {i \in 1..Len(s) : s[i] = "/*"}
    IN  IF opens = {} THEN s
        ELSE LET first == Min(opens)
                 closes == {i \in (first + 1)..Len(s) : s[i] = "*/"}
             IN  IF closes = {} THEN s
                 ELSE SubSeq(s, 1, first - 1) \o SubSeq(s, Max(closes) + 1, Len(s))

\* pwr in s
contains(s, pwr) == \E i \in 1..Len(s) : s[i] = pwr

\* power_pin_check, lines 152-156: the exception raised for the text s of the
\* file type ft, or <<>>
file_failure(ft, s, uses_3v3) ==
    LET expected == << <<"VGND", TRUE>>, <<"VDPWR", TRUE>>, <<"VAPWR", uses_3v3>> >>
        bad == {k \in 1..Len(expected) : contains(s, expected[k][1]) # expected[k][2]}
    IN  IF bad = {} THEN PASS
        ELSE LET pwr == expected[Min(bad)][1]
             IN  IF contains(s, pwr) THEN <<ft, "contains", pwr>>
                 ELSE <<ft, "doesn't contain", pwr>>

\* power_pin_check(verilog, lef, uses_3v3)
power_pin_check(verilog, lef, uses_3v3) ==
    LET verilog_s == sub_block(sub_line(replace(verilog), FALSE))
        lef_s == replace(lef)
        e == file_failure("Verilog", verilog_s, uses_3v3)
    IN  IF e # PASS THEN e ELSE file_failure("LEF", lef_s, uses_3v3)

\* The bounded inputs: one file is made of segments, the other is plain.
InitPower ==
    /\ pin_ \in {[verilog |-> v, lef |-> l, uses_3v3 |-> u] :
                    v \in FilesUpTo(MaxSegments), l \in PlainFiles, u \in BOOLEAN}
                 \cup {[verilog |-> v, lef |-> l, uses_3v3 |-> u] :
                    v \in PlainFiles, l \in FilesUpTo(MaxSegments), u \in BOOLEAN}
    /\ presult = IDLE
    /\ inp = BaseInput /\ StartMain
    /\ NoAnalog /\ NoBoundary /\ NoEngine

RunPowerPinCheck ==
    /\ presult = IDLE
    /\ presult' = power_pin_check(pin_.verilog, pin_.lef, pin_.uses_3v3)
    /\ UNCHANGED <<pin_, mainVars, analogVars, boundaryVars, engineVars>>

NextPower == RunPowerPinCheck

SpecPower == InitPower /\ [][NextPower]_vars

\* The positions of file s that lie in a line comment: at or after a "//" with
\* no line end in between.
InLineComment(s, i) == \E j \in 1..i : s[j] = "//" /\ \A k \in j..i : s[k] # NL


RECURSIVE Commented(_, _, _)
\* The positions of s, from j on, that lie in a comment (their marks included)
\* when the text before j leaves the reader in state st: "code", "line" (in a
\* // comment, up to the line end) or "block" (in a /* comment, up to the next */).
Commented(s, j, st) ==
    IF j > Len(s) THEN {}
    ELSE IF st = "line"
    THEN IF s[j] = NL THEN Commented(s, j + 1, "code")
         ELSE {j} \cup Commented(s, j + 1, "line")
    ELSE IF st = "block"
    THEN {j} \cup Commented(s, j + 1, IF s[j] = "*/" THEN "code" ELSE "block")
    ELSE IF s[j] = "//" THEN {j} \cup Commented(s, j + 1, "line")
    ELSE IF s[j] = "/*" THEN {j} \cup Commented(s, j + 1, "block")
    ELSE Commented(s, j + 1, "code")

\* A supply net is present in a file with its comments stripped; VPWR and VDPWR
\* both name the primary digital supply.
Named(net) == IF net = "VDPWR" THEN {"VPWR", "VDPWR"} ELSE {net}
PresentOutsideComments(s, net) ==
    \E i \in (1..Len(s)) \ Commented(s, 1, "code") : s[i] \in Named(net)
PresentRaw(s, net) == \E i \in 1..Len(s) : s[i] \in Named(net)

\* What the netlist keeps: the positions outside line comments that are not
\* between the first "/*" and the last "*/" found outside line comments.
KeptOfNetlist(s) ==
    LET kept == {i \in 1..Len(s) : ~InLineComment(s, i)}
        opens == {i \in kept : s[i] = "/*"}
        closes == {i \in kept : s[i] = "*/" /\ opens # {} /\ i > Min(opens)}
    IN  IF closes = {} THEN kept
        ELSE {i \in kept : i < Min(opens) \/ i > Max(closes)}
PresentInNetlist(s, net) == \E i \in KeptOfNetlist(s) : s[i] \in Named(net)

PowerDone == presult # IDLE
Flipped == power_pin_check(pin_.verilog, pin_.lef, ~pin_.uses_3v3)

\* C9 as stated: the check passes if and only if, in the netlist and in the LEF,
\* each with its line and block comments stripped, VGND is present, VPWR/VDPWR
\* is present, and VAPWR is present exactly when uses_3v3; and flipping
\* uses_3v3 flips the outcome of a passing input and of an input whose only
\* mismatch is VAPWR.
C9_PassIffNetsOutsideComments ==
    PowerDone =>
        LET Ok(s) == /\ PresentOutsideComments(s, "VGND")
                     /\ PresentOutsideComments(s, "VDPWR")
                     /\ PresentOutsideComments(s, "VAPWR") = pin_.uses_3v3
            Supplies(s) == /\ PresentOutsideComments(s, "VGND")
                           /\ PresentOutsideComments(s, "VDPWR")
        IN  /\ presult = PASS <=> Ok(pin_.verilog) /\ Ok(pin_.lef)
            /\ presult = PASS => Flipped # PASS
            /\ presult # PASS /\ Supplies(pin_.verilog) /\ Supplies(pin_.lef) =>
                  Flipped = PASS

\* C9 amended: the check passes if and only if VGND is present, VPWR/VDPWR is
\* present and VAPWR is present exactly when uses_3v3, in the LEF as it is (no
\* comment of it is stripped) and in the netlist without its // comments and
\* without everything from its first /* to its last */; flipping uses_3v3
\* makes a passing input fail, and makes an input pass that has VGND and
\* VPWR/VDPWR in both files and VAPWR in both or in neither.
C9_PassIffNetsInSearchedText ==
    PowerDone =>
        LET u == pin_.uses_3v3
            OkNetlist == /\ PresentInNetlist(pin_.verilog, "VGND")
                         /\ PresentInNetlist(pin_.verilog, "VDPWR")
            OkLef == /\ PresentRaw(pin_.lef, "VGND")
                     /\ PresentRaw(pin_.lef, "VDPWR")
            an == PresentInNetlist(pin_.verilog, "VAPWR")
            al == PresentRaw(pin_.lef, "VAPWR")
        IN  /\ presult = PASS <=> OkNetlist /\ OkLef /\ an = u /\ al = u
            /\ presult = PASS => Flipped # PASS
            /\ presult # PASS /\ OkNetlist /\ OkLef /\ an = al => Flipped = PASS

\* C9 witness: a netlist with VGND and VPWR between two block comments, the
\* first of which names VAPWR, and a LEF with the two supplies: the check
\* raises "Verilog doesn't contain VGND".
C9_Witness ==
    /\ pin_.verilog = <<"/*", "VAPWR", "*/", "VGND", "VPWR", "/*", "VAPWR", "*/">>
    /\ pin_.lef = <<"VGND", "VDPWR">>
    /\ ~pin_.uses_3v3
    /\ presult = <<"Verilog", "doesn't contain", "VGND">>

----------------------------------------------------------------------------
(* boundary_check on bounded layouts                                       *)

\* The most shapes of a layout.
MaxShapes == 2
\* The coordinates of the shapes.
Coords == {0, 1, 2}

Boxes == {<<x1, y1, x2, y2>> : x1 \in Coords, y1 \in Coords, x2 \in Coords, y2 \in Coords}
BoundaryShapes ==
    {sh \in [layer : {prBoundary, met1_drawing}, at : {"top", "sub"}, box : Boxes] :
        sh.box[1] < sh.box[3] /\ sh.box[2] < sh.box[4]}

\* The bounded inputs; a library without top-level cell holds no cell, so no shape.
InitBoundary ==
    /\ bin \in {[tops |-> 0, top_name |-> "", shapes |-> {}]}
               \cup {[tops |-> n, top_name |-> "tt_um_x", shapes |-> sh] :
                       n \in 1..2, sh \in SubsetsUpTo(BoundaryShapes, MaxShapes)}
    /\ bresult = IDLE
    /\ inp = BaseInput /\ StartMain
    /\ NoAnalog /\ NoPower /\ NoEngine

RunBoundaryCheck ==
    /\ bresult = IDLE
    /\ bresult' = boundary_check(bin)
    /\ UNCHANGED <<bin, mainVars, analogVars, powerVars, engineVars>>

NextBoundary == RunBoundaryCheck

SpecBoundary == InitBoundary /\ [][NextBoundary]_vars

\* The box around a set of shapes, <<>> for none.
BoxAround(shapes) ==
    IF shapes = {} THEN <<>>
    ELSE << Min({sh.box[1] : sh \in shapes}), Min({sh.box[2] : sh \in shapes}),
            Max({sh.box[3] : sh \in shapes}), Max({sh.box[4] : sh \in shapes}) >>

\* C10: boundary_check raises "GDS top level not unique" when the number of
\* top-level cells is not 1; otherwise it returns if and only if the box around
\* all geometry reachable from the top cell, the geometry of referenced
\* sub-cells included, equals the box around the geometry on the boundary
\* layer (235, 4).
C10_PassIffInsideBoundary ==
    bresult # IDLE =>
        /\ bin.tops # 1 => bresult = <<"GDS top level not unique">>
        /\ bin.tops = 1 =>
              (bresult = PASS <=>
                  BoxAround(bin.shapes)
                    = BoxAround({sh \in bin.shapes : sh.layer = prBoundary}))

----------------------------------------------------------------------------
(* magic_drc and klayout_drc: checks delegated to an external engine       *)

\* The most items a violation report holds.
MaxItems == 2
\* Process exit statuses: 0, two failures, and death by a signal.
Returncodes == {0, 1, 2, 0 - 9}
\* The values of the parameter check at the call sites of klayout_drc.
DrcChecks == {"feol", "beol", "offgrid", "pin_label_purposes_overlapping_drawing",
              "zero_area", "nwell_urpm"}

\* What the engine did.  started: subprocess.run could start the executable
\* (else it raises FileNotFoundError and there is no exit status).  loads,
\* num_items: whether reports/drc_<check>.xml can be loaded after the run, and
\* the items it then holds; the file is the engine's to write.
InitDrc ==
    /\ din \in {[engine |-> "klayout", check |-> c, started |-> TRUE,
                  returncode |-> rc, loads |-> TRUE, num_items |-> n] :
                    c \in DrcChecks, rc \in Returncodes, n \in 0..MaxItems}
               \cup {[engine |-> "klayout", check |-> c, started |-> TRUE,
                      returncode |-> rc, loads |-> FALSE, num_items |-> 0] :
                        c \in DrcChecks, rc \in Returncodes}
               \cup {[engine |-> "klayout", check |-> c, started |-> FALSE,
                      returncode |-> 0, loads |-> l, num_items |-> 0] :
                        c \in DrcChecks, l \in BOOLEAN}
               \cup {[engine |-> "magic", check |-> "magic", started |-> st,
                      returncode |-> rc, loads |-> FALSE, num_items |-> 0] :
                        st \in BOOLEAN, rc \in Returncodes}
    /\ dpc = "run"
    /\ dresult = IDLE
    /\ report_loaded = FALSE
    /\ inp = BaseInput /\ StartMain
    /\ NoAnalog /\ NoPower /\ NoBoundary /\ NoLayer /\ NoKlayout

\* magic_drc(gds, toplevel).  has_sky130_devices only chooses whether a
\* warning is logged.
magic_drc ==
    /\ dpc = "run"
    /\ din.engine = "magic"
    /\ dresult' = IF ~din.started THEN <<"Exception", "FileNotFoundError">>
                  ELSE IF din.returncode # 0 THEN <<"Magic DRC failed">>
                  ELSE PASS
    /\ dpc' = "done"
    /\ UNCHANGED <<din, report_loaded, layerVars, klayoutVars,
                   mainVars, analogVars, powerVars, boundaryVars>>

\* klayout_drc that loads the report whatever the exit status was.
klayout_drc_run_NoExitTest ==
    /\ dpc = "run"
    /\ din.engine = "klayout"
    /\ IF ~din.started
       THEN dresult' = <<"Exception", "FileNotFoundError">> /\ dpc' = "done"
       ELSE dresult' = dresult /\ dpc' = "load"
    /\ UNCHANGED <<din, report_loaded, layerVars, klayoutVars,
                   mainVars, analogVars, powerVars, boundaryVars>>

\* klayout_drc, lines 65-77: the engine runs; a non-zero exit raises
klayout_drc_run ==
    /\ dpc = "run"
    /\ din.engine = "klayout"
    /\ IF ~din.started
       THEN dresult' = <<"Exception", "FileNotFoundError">> /\ dpc' = "done"
       ELSE IF din.returncode # 0
       THEN dresult' = <<"Klayout", din.check, "failed">> /\ dpc' = "done"
       ELSE dresult' = dresult /\ dpc' = "load"
    /\ UNCHANGED <<din, report_loaded, layerVars, klayoutVars,
                   mainVars, analogVars, powerVars, boundaryVars>>

\* klayout_drc, lines 79-85: the report is loaded and its items counted
klayout_drc_load ==
    /\ dpc = "load"
    /\ report_loaded' = TRUE
    /\ dresult' = IF ~din.loads THEN <<"Exception", "report.load">>
                  ELSE IF din.num_items > 0
                  THEN <<"Klayout", din.check, "failed with", din.num_items,
                         "DRC violations">>
                  ELSE PASS
    /\ dpc' = "done"
    /\ UNCHANGED <<din, layerVars, klayoutVars,
                   mainVars, analogVars, powerVars, boundaryVars>>

NextDrc ==
    \/ magic_drc
    \/ klayout_drc_run
    \/ klayout_drc_load

SpecDrc == InitDrc /\ [][NextDrc]_vars

DrcDone == dpc = "done"
DrcFailed == DrcDone /\ dresult # PASS
ExitDiagnostic == <<"Klayout", din.check, "failed">>
CountDiagnostic ==
    <<"Klayout", din.check, "failed with", din.num_items, "DRC violations">>

\* C11 as stated: a delegated check fails exactly when the engine exits
\* non-zero or the loaded report holds items; a non-zero exit has its own
\* diagnostic; and the report is loaded only after a zero exit.
C11_FailsIffExitOrViolations ==
    /\ (DrcDone /\ din.engine = "klayout") =>
          /\ (dresult # PASS) <=>
                \/ (din.started /\ din.returncode # 0)
                \/ (report_loaded /\ din.loads /\ din.num_items > 0)
          /\ (din.started /\ din.returncode # 0) =>
                dresult = ExitDiagnostic /\ dresult # CountDiagnostic
    /\ report_loaded => din.started /\ din.returncode = 0

\* C11: klayout_drc fails exactly when the engine cannot be started, exits
\* non-zero, leaves a report that cannot be loaded, or leaves a report with
\* items.  A non-zero exit raises "Klayout <check> failed", which differs from
\* the diagnostic of a report with items (that one carries the count); the
\* other two failures are exceptions of the library.  The report is loaded
\* only after the engine was started and exited with 0.  magic_drc fails
\* exactly when magic cannot be started or exits non-zero, and loads no report.
C11_FailsIffEngineOrReport ==
    /\ (DrcDone /\ din.engine = "klayout") =>
          /\ (dresult # PASS) <=>
                \/ ~din.started
                \/ din.returncode # 0
                \/ ~din.loads
                \/ din.num_items > 0
          /\ (din.started /\ din.returncode # 0) =>
                dresult = ExitDiagnostic /\ dresult # CountDiagnostic
          /\ (din.started /\ din.returncode = 0 /\ din.loads /\ din.num_items > 0) =>
                dresult = CountDiagnostic
          /\ (dresult # PASS /\ dresult[1] = "Exception") <=>
                (~din.started \/ (din.returncode = 0 /\ ~din.loads))
    /\ (DrcDone /\ din.engine = "magic") =>
          /\ (dresult # PASS) <=> (~din.started \/ din.returncode # 0)
          /\ ~report_loaded
    /\ report_loaded => din.started /\ din.returncode = 0

\* C11 witness: the engine exited with 0, the report was loaded and held
\* items, and the check failed with the count in its diagnostic.
C11_Witness ==
    /\ DrcDone
    /\ din.engine = "klayout"
    /\ din.returncode = 0
    /\ report_loaded
    /\ din.num_items = MaxItems
    /\ dresult = CountDiagnostic

----------------------------------------------------------------------------
(* layer_check                                                             *)

\* tech_data.valid_layers[tech]: the allow-list of (layer, datatype) pairs;
\* main() passes "sky130".  Three of its pairs stand for the list.
valid_layers(tech) == {met1_drawing, <<68, 5>>, prBoundary}

\* The pairs a layout may use: the allow-listed ones and two that are not.
LayerPairs == valid_layers("sky130") \cup {<<68, 99>>, <<200, 0>>}

\* layer_check that looks at the drawing pairs only.
layer_check_NoTexttypes(datatypes, texttypes, tech) ==
    LET excess == datatypes \ valid_layers(tech)
    IN  IF excess # {} THEN <<"Invalid layers in GDS:", excess>> ELSE PASS

\* layer_check(gds, tech); datatypes and texttypes are what
\* lib.layers_and_datatypes() and lib.layers_and_texttypes() return.
layer_check(datatypes, texttypes, tech) ==
    LET layers_ == datatypes \cup texttypes
        excess == layers_ \ valid_layers(tech)
    IN  IF excess # {} THEN <<"Invalid layers in GDS:", excess>> ELSE PASS

InitLayer ==
    /\ lin \in {[datatypes |-> d, texttypes |-> t, tech |-> "sky130"] :
                   d \in SUBSET LayerPairs, t \in SUBSET LayerPairs}
    /\ lresult = IDLE
    /\ inp = BaseInput /\ StartMain
    /\ NoAnalog /\ NoPower /\ NoBoundary /\ NoDrc /\ NoKlayout

RunLayerCheck ==
    /\ lresult = IDLE
    /\ lresult' = layer_check(lin.datatypes, lin.texttypes, lin.tech)
    /\ UNCHANGED <<lin, drcVars, klayoutVars,
                   mainVars, analogVars, powerVars, boundaryVars>>

NextLayer == RunLayerCheck

SpecLayer == InitLayer /\ [][NextLayer]_vars

\* A pair is present in the layout: some shape or some text is on it.
Present(p) == p \in lin.datatypes \/ p \in lin.texttypes
Allowed(p) == p \in valid_layers(lin.tech)

\* C12: layer_check passes exactly when every pair present in the layout, as
\* a drawing pair or as a text pair, is on the allow-list; and when it fails
\* the diagnostic lists the pairs that are present and not allowed, each of
\* them and no other.
C12_PassIffAllAllowed ==
    lresult # IDLE =>
       /\ (lresult = PASS) <=> (\A p \in LayerPairs : Present(p) => Allowed(p))
       /\ lresult # PASS =>
             /\ lresult[1] = "Invalid layers in GDS:"
             /\ \A p \in LayerPairs : p \in lresult[2] <=> (Present(p) /\ ~Allowed(p))
             /\ lresult[2] \subseteq LayerPairs

\* C12 witness: a layout whose shapes are all allowed and whose texts use one
\* allowed and one other pair fails, and the diagnostic names that one pair.
C12_Witness ==
    /\ lresult # IDLE
    /\ lin.datatypes = {met1_drawing, prBoundary}
    /\ lin.texttypes = {<<68, 5>>, <<200, 0>>}
    /\ lresult = <<"Invalid layers in GDS:", {<<200, 0>>}>>

----------------------------------------------------------------------------
(* klayout_checks                                                          *)

\* The pairs of the shapes of a layout: the boundary, the three forbidden
\* pairs and one that is neither.
KlayoutPairs == {prBoundary, met5_drawing, met5_pin, met5_label, met1_drawing}
\* Top cell names: the expected one, the same in capitals, and another.
TopNames == {"tt_um_x", "TT_UM_X", "tt_um_y"}

\* Every layout with at most two top cells whose shapes lie on KlayoutPairs,
\* in the top cell or in a sub-cell; a layout without top cells has no cell
\* and so no shape.
InitKlayout ==
    /\ kin \in {[gds |-> "args.gds", expected_name |-> "tt_um_x",
                 layout |-> [tops |-> 0, top_name |-> "", shapes |-> {}]]}
               \cup {[gds |-> "args.gds", expected_name |-> "tt_um_x",
                      layout |-> [tops |-> n, top_name |-> name, shapes |-> sh]] :
                        n \in 1..2, name \in TopNames,
                        sh \in SUBSET {Shape(l, at, <<0, 0, 1, 1>>) :
                                          l \in KlayoutPairs, at \in {"top", "sub"}}}
    /\ kresult = IDLE
    /\ inp = BaseInput /\ StartMain
    /\ NoAnalog /\ NoPower /\ NoBoundary /\ NoDrc /\ NoLayer

RunKlayoutChecks ==
    /\ kresult = IDLE
    /\ kresult' = klayout_checks(kin.gds, kin.expected_name, kin.layout)
    /\ UNCHANGED <<kin, drcVars, layerVars,
                   mainVars, analogVars, powerVars, boundaryVars>>

NextKlayout == RunKlayoutChecks

SpecKlayout == InitKlayout /\ [][NextKlayout]_vars

\* The layout has a top cell, one, and its name is the expected name.
TopCellNamed == kin.layout.tops = 1 /\ kin.layout.top_name = kin.expected_name
\* Some shape of the layout is on the pair.
PairPresent(pair) == \E s \in kin.layout.shapes : s.layer = pair
NoForbiddenPair == \A pair \in {met5_drawing, met5_pin, met5_label} : ~PairPresent(pair)
BoundaryAbsentDiagnostic == <<"prBoundary.boundary (235/4) layer not found in", kin.gds>>

\* C13: 'KLayout Checks' passes exactly when the top cell's name is the
\* expected name (compared as it is written), none of met5.drawing, met5.pin
\* and met5.label is in the layout, and the prBoundary.boundary layer is in
\* the layout; and when only the boundary layer is missing the diagnostic is
\* the check's own, which boundary_check never gives.
C13_PassIffNameForbiddenBoundary ==
    kresult # IDLE =>
       /\ (kresult = PASS) <=>
             (TopCellNamed /\ NoForbiddenPair /\ PairPresent(prBoundary))
       /\ (TopCellNamed /\ NoForbiddenPair /\ ~PairPresent(prBoundary)) =>
             /\ kresult = BoundaryAbsentDiagnostic
             /\ kresult # boundary_check(kin.layout)
             /\ kresult # <<"Shapes outside project area">>
       /\ (kin.layout.tops = 1 /\ kin.layout.top_name = "TT_UM_X") =>
             kresult = <<"Top macro name mismatch: expected", kin.expected_name,
                         "got", "TT_UM_X">>

\* C13 witness: the name matches, no forbidden pair is used, the layout has
\* a wire but no boundary shape, and the check fails with its own diagnostic
\* while boundary_check fails with the other one.
C13_Witness ==
    /\ kresult = BoundaryAbsentDiagnostic
    /\ TopCellNamed
    /\ kin.layout.shapes = {Shape(met1_drawing, "top", <<0, 0, 1, 1>>)}
    /\ boundary_check(kin.layout) = <<"Shapes outside project area">>

----------------------------------------------------------------------------
(* main() as a running process                                             *)

\* The interpreter keeps executing main(): whenever main() has a next step,
\* a step is eventually taken.
SpecLive == Init /\ [][Next]_vars /\ WF_vars(Next)

\* C14: the info.yaml lookup always ends: from the while loop main() goes on
\* to the checks or is left by an exception; and when it is left with
\* 'info.yaml not found' the exit status is not 0 and no check has run.
C14_LookupTerminates ==
    /\ (pc \in {"find_yaml", "walk_up"}) ~> (pc \in {"checks", "exited"})
    /\ [](fatal = <<"info.yaml not found">> =>
             pc = "exited" /\ exit_code # 0 /\ testsuite = <<>>)


\* C15: for a compressed input the decompressed temporary file is on disk
\* while the checks run, and no temporary file is left when the process has
\* exited, whichever way it exited.
C15_TempFileDeletedOnEveryExit ==
    /\ (inp.ext = "gds.br" /\ pc = "checks") => (gds_temp # None /\ gds_temp \in tmp_files)
    /\ pc = "exited" => tmp_files = {}

====
